---- MODULE Spec2Model ----
(***************************************************************************)
(* Item CRUD application of src/app.js: the four Lambda handlers           *)
(* (CreateItem, ReadItem, UpdateItem, DeleteItem) over the DynamoDB table  *)
(* ItemsTable, and the browser front end that calls them through fetch.    *)
(*                                                                         *)
(* JavaScript objects are functions from key names to strings; a key that  *)
(* is not in the DOMAIN reads as Undefined, as property access does.       *)
(***************************************************************************)
EXTENDS Integers, Sequences, FiniteSets, TLC

(* ------------------------------ bounds --------------------------------- *)

\* the clock takes the values 0..MaxClock
MaxClock == 1

(* --------------------------- JavaScript values ------------------------- *)

Undefined == "undefined"
Null == "null"

EmptyObj == [k \in {} |-> Undefined]

\* property access / destructuring: a missing key reads as undefined
Get(o, k) == IF k \in DOMAIN o THEN o[k] ELSE Undefined

\* JavaScript truthiness of a string-or-null-or-undefined value
Truthy(v) == v # Undefined /\ v # Null /\ v # ""

\* JSON.stringify of an object: keys whose value is undefined are omitted
JSONStringify(o) == [k \in {j \in DOMAIN o : o[j] # Undefined} |-> o[k]]

\* an HTTP body: JSON text of an object, the null body, or text that is not JSON
JSONText(o) == [kind |-> "object", obj |-> JSONStringify(o)]
NullBody == [kind |-> "null", obj |-> EmptyObj]
MalformedBody == [kind |-> "malformed", obj |-> EmptyObj]

\* JSON.parse followed by object destructuring: JSON.parse throws on text that
\* is not JSON, and destructuring the null that JSON.parse(null) returns throws
ParseThrows(body) == body.kind # "object"
JSONParse(body) == body.obj

\* new Date().toISOString() at clock value t (milliseconds)
ToISOString(t) == "1970-01-01T00:00:00.00" \o ToString(t) \o "Z"

(* ------------------------------ inputs --------------------------------- *)

Ids == {"a", "b"}
\* the id whose history is recorded
Watched == "a"
IdInputs == Ids \cup {"", Undefined}
NameInputs == {"n1", "n2", Undefined}
DescriptionInputs == {"d1", Undefined}
\* a CreatedAt the caller puts into the request body
CallerDates == {"1999-12-31T23:59:59.999Z", Undefined}

\* event.pathParameters: null without a path parameter, else an object
NoPath == [kind |-> "null", obj |-> EmptyObj]
PathOf(id) == [kind |-> "object", obj |-> JSONStringify([ItemID |-> id])]
PathInputs == {NoPath} \cup {PathOf(id) : id \in IdInputs}

CreateBodies ==
  {NullBody, MalformedBody} \cup
  {JSONText([ItemID |-> i, Name |-> n, Description |-> d, CreatedAt |-> c]) :
     i \in IdInputs, n \in NameInputs \ {Undefined}, d \in DescriptionInputs, c \in CallerDates}

UpdateBodies ==
  {NullBody, MalformedBody} \cup
  {JSONText([Name |-> n, Description |-> d]) :
     n \in NameInputs, d \in DescriptionInputs}

\* what a text input of a form can hold, and what prompt() can return
FormInputs == {"", "a", "b"}
FormNames == {"", "n1"}
FormDescriptions == {"", "d1"}
PromptInputs == {Null, "", "a", "b"}

(* ------------------------------- state --------------------------------- *)

VARIABLES
  ItemsTable,   \* the DynamoDB table: partition key ItemID -> stored item
  now,          \* the clock read by new Date()
  call,         \* the last handler invocation: who made it, its key, its outcome
  hist,         \* the last two successful Create/Update/Delete of Watched
  ui            \* the page: the id typed in, item-output and the last alert

vars == <<ItemsTable, now, call, hist, ui>>

(* ------------------------- the DynamoDB table -------------------------- *)

\* the table's key schema (partition key ItemID, String): a request whose key
\* is missing or empty is rejected by the table
ValidKey(k) == k # Undefined /\ k # ""

\* DocumentClient marshalling of an item: undefined attributes are dropped
Marshal(item) == JSONStringify(item)

\* a put that refuses to replace an item (attribute_not_exists condition)
DynamoDbPutIfAbsent(table, item, fault) ==
  IF fault \/ ~ValidKey(Get(item, "ItemID")) \/ Get(item, "ItemID") \in DOMAIN table
  THEN [threw |-> TRUE, table |-> table, result |-> EmptyObj]
  ELSE [threw |-> FALSE,
        table |-> [k \in DOMAIN table \cup {item.ItemID} |->
                     IF k = item.ItemID THEN Marshal(item) ELSE table[k]],
        result |-> EmptyObj]

\* dynamoDb.put(params).promise(): unconditional put
DynamoDbPut(table, item, fault) ==
  IF fault \/ ~ValidKey(Get(item, "ItemID"))
  THEN [threw |-> TRUE, table |-> table, result |-> EmptyObj]
  ELSE [threw |-> FALSE,
        table |-> [k \in DOMAIN table \cup {item.ItemID} |->
                     IF k = item.ItemID THEN Marshal(item) ELSE table[k]],
        result |-> EmptyObj]

\* dynamoDb.get(params).promise(): result.Item is the item or undefined
DynamoDbGet(table, key, fault) ==
  IF fault \/ ~ValidKey(key)
  THEN [threw |-> TRUE, table |-> table, found |-> FALSE, result |-> EmptyObj]
  ELSE [threw |-> FALSE, table |-> table,
        found |-> key \in DOMAIN table,
        result |-> IF key \in DOMAIN table THEN table[key] ELSE EmptyObj]

\* an update that writes the whole item anew from the key and the two values
UpdateExpressionReplacing(old, name, description) ==
  [ItemID |-> old.ItemID, Name |-> name, Description |-> description]

\* UpdateExpression 'set Name = :name, Description = :description' applied to
\* the item old: the two attributes are set, every other attribute is kept
UpdateExpression(old, name, description) ==
  [k \in DOMAIN old \cup {"Name", "Description"} |->
     IF k = "Name" THEN name
     ELSE IF k = "Description" THEN description
     ELSE old[k]]

\* dynamoDb.update(params).promise() with ReturnValues ALL_NEW: there is no
\* condition expression, so an absent key is created (upsert); an expression
\* attribute value that is undefined is rejected
DynamoDbUpdate(table, key, name, description, fault) ==
  IF fault \/ ~ValidKey(key) \/ name = Undefined \/ description = Undefined
  THEN [threw |-> TRUE, table |-> table, result |-> EmptyObj]
  ELSE LET old == IF key \in DOMAIN table THEN table[key]
                  ELSE [ItemID |-> key]
           new == UpdateExpression(old, name, description)
       IN [threw |-> FALSE,
           table |-> [k \in DOMAIN table \cup {key} |->
                        IF k = key THEN new ELSE table[k]],
           result |-> new]

\* a delete whose Key names no stored item: nothing is removed
DynamoDbDeleteNothing(table, key, fault) ==
  IF fault \/ ~ValidKey(key)
  THEN [threw |-> TRUE, table |-> table, result |-> EmptyObj]
  ELSE [threw |-> FALSE, table |-> table, result |-> EmptyObj]

\* a delete that fails on an absent key (attribute_exists condition)
DynamoDbDeleteIfExists(table, key, fault) ==
  IF fault \/ ~ValidKey(key) \/ key \notin DOMAIN table
  THEN [threw |-> TRUE, table |-> table, result |-> EmptyObj]
  ELSE [threw |-> FALSE,
        table |-> [k \in DOMAIN table \ {key} |-> table[k]],
        result |-> EmptyObj]

\* dynamoDb.delete(params).promise(): deleting an absent key succeeds
DynamoDbDelete(table, key, fault) ==
  IF fault \/ ~ValidKey(key)
  THEN [threw |-> TRUE, table |-> table, result |-> EmptyObj]
  ELSE [threw |-> FALSE,
        table |-> [k \in DOMAIN table \ {key} |-> table[k]],
        result |-> EmptyObj]

(* ----------------------------- the handlers ---------------------------- *)

\* the record of one handler invocation: calls counts the requests it sent to
\* the table, threw says that an exception left the handler
Invocation(op, id, fault, calls, threw, status, body) ==
  [op |-> op, ItemID |-> id, fault |-> fault, calls |-> calls,
   threw |-> threw, statusCode |-> status, body |-> body, via |-> "api"]

Locals(name, description, timestamp) ==
  [Name |-> name, Description |-> description, timestamp |-> timestamp]

NoLocals == Locals(Undefined, Undefined, Undefined)

\* an invocation that ended in an exception thrown out of the handler
Uncaught(op, id, fault) == Invocation(op, id, fault, 0, TRUE, 0, NullBody)

NoCall == Invocation("none", Undefined, FALSE, 0, FALSE, 0, NullBody)

\* an Item whose CreatedAt is taken from the request body
CreateParamsFromBody(b, timestamp) ==
  [ItemID |-> Get(b, "ItemID"), Name |-> Get(b, "Name"),
   Description |-> Get(b, "Description"), CreatedAt |-> Get(b, "CreatedAt")]

\* params.Item of CreateItem: the three body fields and the handler's timestamp
CreateParams(b, timestamp) ==
  [ItemID |-> Get(b, "ItemID"), Name |-> Get(b, "Name"),
   Description |-> Get(b, "Description"), CreatedAt |-> timestamp]

\* CreateItem: exports.handler of the CreateItem Lambda
CreateItem(event, table, clock, fault) ==
  IF ParseThrows(event.body)
  THEN [table |-> table, locals |-> NoLocals,
        call |-> Uncaught("Create", Undefined, fault)]
  ELSE LET b == JSONParse(event.body)
           ItemID == Get(b, "ItemID")
           Name == Get(b, "Name")
           Description == Get(b, "Description")
           timestamp == ToISOString(clock)
           r == DynamoDbPut(table, CreateParams(b, timestamp), fault)
       IN [table |-> r.table,
           locals |-> Locals(Name, Description, timestamp),
           call |-> IF ~r.threw
                    THEN Invocation("Create", ItemID, fault, 1, FALSE, 201,
                           JSONText([message |-> "Item created successfully"]))
                    ELSE Invocation("Create", ItemID, fault, 1, FALSE, 500,
                           JSONText([error |-> "Could not create item"]))]

\* a Read response without the check of result.Item
ReadResponseUnchecked(r, ItemID, fault) ==
  IF r.threw
  THEN Invocation("Read", ItemID, fault, 1, FALSE, 500,
         JSONText([error |-> "Could not retrieve item"]))
  ELSE Invocation("Read", ItemID, fault, 1, FALSE, 200, JSONText(r.result))

\* the try/catch of ReadItem: the response for the outcome r of dynamoDb.get
ReadResponse(r, ItemID, fault) ==
  IF r.threw
  THEN Invocation("Read", ItemID, fault, 1, FALSE, 500,
         JSONText([error |-> "Could not retrieve item"]))
  ELSE IF ~r.found
  THEN Invocation("Read", ItemID, fault, 1, FALSE, 404,
         JSONText([message |-> "Item not found"]))
  ELSE Invocation("Read", ItemID, fault, 1, FALSE, 200, JSONText(r.result))

\* ReadItem: exports.handler of the ReadItem Lambda
ReadItem(event, table, fault) ==
  IF event.pathParameters.kind # "object"
  THEN [table |-> table, locals |-> NoLocals,
        call |-> Uncaught("Read", Undefined, fault)]
  ELSE LET ItemID == Get(event.pathParameters.obj, "ItemID")
           r == DynamoDbGet(table, ItemID, fault)
       IN [table |-> r.table,
           locals |-> NoLocals,
           call |-> ReadResponse(r, ItemID, fault)]

\* UpdateItem: exports.handler of the UpdateItem Lambda
UpdateItem(event, table, fault) ==
  IF event.pathParameters.kind # "object"
  THEN [table |-> table, locals |-> NoLocals,
        call |-> Uncaught("Update", Undefined, fault)]
  ELSE LET ItemID == Get(event.pathParameters.obj, "ItemID")
       IN IF ParseThrows(event.body)
          THEN [table |-> table, locals |-> NoLocals,
                call |-> Uncaught("Update", ItemID, fault)]
          ELSE LET b == JSONParse(event.body)
                   Name == Get(b, "Name")
                   Description == Get(b, "Description")
                   r == DynamoDbUpdate(table, ItemID, Name, Description, fault)
               IN [table |-> r.table,
                   locals |-> Locals(Name, Description, Undefined),
                   call |-> IF ~r.threw
                            THEN Invocation("Update", ItemID, fault, 1, FALSE, 200,
                                   JSONText(r.result))
                            ELSE Invocation("Update", ItemID, fault, 1, FALSE, 500,
                                   JSONText([error |-> "Could not update item"]))]

\* DeleteItem: exports.handler of the DeleteItem Lambda
DeleteItem(event, table, fault) ==
  IF event.pathParameters.kind # "object"
  THEN [table |-> table, locals |-> NoLocals,
        call |-> Uncaught("Delete", Undefined, fault)]
  ELSE LET ItemID == Get(event.pathParameters.obj, "ItemID")
           r == DynamoDbDelete(table, ItemID, fault)
       IN [table |-> r.table,
           locals |-> NoLocals,
           call |-> IF ~r.threw
                    THEN Invocation("Delete", ItemID, fault, 1, FALSE, 200,
                           JSONText([message |-> "Item deleted successfully"]))
                    ELSE Invocation("Delete", ItemID, fault, 1, FALSE, 500,
                           JSONText([error |-> "Could not delete item"]))]

(* --------------------- history of each id (for the claims) ------------- *)

NoHist ==
  [op |-> "none", Name |-> Undefined, Description |-> Undefined,
   timestamp |-> Undefined, prev |-> "none"]

\* a handler invocation succeeded: it returned a 2xx response
Succeeded(c) == ~c.threw /\ c.statusCode \in {200, 201}

\* the history after invocation r: a successful Create, Update or Delete of
\* Watched is recorded with the handler's locals; Read is an observer, and a
\* failed invocation or one on another id is not recorded
Track(h, r) ==
  IF r.call.op \in {"Create", "Update", "Delete"} /\ Succeeded(r.call)
     /\ r.call.ItemID = Watched
  THEN [op |-> r.call.op, Name |-> r.locals.Name,
        Description |-> r.locals.Description,
        timestamp |-> r.locals.timestamp,
        prev |-> h.op]
  ELSE h

(* ------------------------------ front end ------------------------------ *)

\* what fetch(...) then response.json() yields for a handler invocation: the
\* handler's body, or the gateway's error body when the handler threw
ResponseJson(c) ==
  IF c.threw THEN JSONStringify([message |-> "Internal server error"])
  ELSE JSONParse(c.body)

NoUi == [id |-> Undefined, output |-> <<>>, alert |-> Null]

\* the item-output element after the load-item listener has seen data
RenderItem(data) ==
  IF Truthy(Get(data, "name"))
  THEN <<"ID:", Get(data, "id"), "Name:", Get(data, "name"),
         "Description:", Get(data, "description")>>
  ELSE <<"Item not found">>

(* ------------------------------- actions ------------------------------- *)

Init ==
  /\ ItemsTable = EmptyObj
  /\ now = 0
  /\ call = NoCall
  /\ hist = NoHist
  /\ ui = NoUi

\* time passes
Tick ==
  /\ now < MaxClock
  /\ now' = now + 1
  /\ UNCHANGED <<ItemsTable, call, hist, ui>>

\* the effect of one handler invocation r, made by a client (via), on the
\* table and the history
Invoked(r, via) ==
  /\ ItemsTable' = r.table
  /\ call' = [r.call EXCEPT !.via = via]
  /\ hist' = Track(hist, r)
  /\ UNCHANGED now

\* a client invokes the CreateItem Lambda through the API
InvokeCreateItem ==
  \E body \in CreateBodies, fault \in BOOLEAN :
    /\ Invoked(CreateItem([pathParameters |-> NoPath, body |-> body],
                          ItemsTable, now, fault), "api")
    /\ UNCHANGED ui

\* a client invokes the ReadItem Lambda through the API
InvokeReadItem ==
  \E path \in PathInputs, fault \in BOOLEAN :
    /\ Invoked(ReadItem([pathParameters |-> path, body |-> NullBody],
                        ItemsTable, fault), "api")
    /\ UNCHANGED ui

\* a client invokes the UpdateItem Lambda through the API
InvokeUpdateItem ==
  \E path \in PathInputs, body \in UpdateBodies, fault \in BOOLEAN :
    /\ Invoked(UpdateItem([pathParameters |-> path, body |-> body],
                          ItemsTable, fault), "api")
    /\ UNCHANGED ui

\* a client invokes the DeleteItem Lambda through the API
InvokeDeleteItem ==
  \E path \in PathInputs, fault \in BOOLEAN :
    /\ Invoked(DeleteItem([pathParameters |-> path, body |-> NullBody],
                          ItemsTable, fault), "api")
    /\ UNCHANGED ui

\* create-item-form submit listener
SubmitCreateForm ==
  \E id \in FormInputs, name \in FormNames, description \in FormDescriptions,
     fault \in BOOLEAN :
    LET body == JSONText([id |-> id, name |-> name, description |-> description])
        r == CreateItem([pathParameters |-> NoPath, body |-> body],
                        ItemsTable, now, fault)
        data == ResponseJson(r.call)
    IN /\ Invoked(r, "page")
       /\ ui' = [ui EXCEPT !.id = id, !.alert = Get(data, "message")]

\* load-item-button click listener
ClickLoadItem ==
  \E itemId \in PromptInputs, fault \in BOOLEAN :
    IF Truthy(itemId)
    THEN LET r == ReadItem([pathParameters |-> PathOf(itemId), body |-> NullBody],
                           ItemsTable, fault)
             data == ResponseJson(r.call)
         IN /\ Invoked(r, "page")
            /\ ui' = [ui EXCEPT !.id = itemId, !.output = RenderItem(data)]
    ELSE UNCHANGED vars

\* update-item-form submit listener
SubmitUpdateForm ==
  \E id \in FormInputs, name \in FormNames, description \in FormDescriptions,
     fault \in BOOLEAN :
    LET body == JSONText([name |-> name, description |-> description])
        r == UpdateItem([pathParameters |-> PathOf(id), body |-> body],
                        ItemsTable, fault)
        data == ResponseJson(r.call)
    IN /\ Invoked(r, "page")
       /\ ui' = [ui EXCEPT !.id = id, !.alert = Get(data, "message")]

\* delete-item-form submit listener
SubmitDeleteForm ==
  \E id \in FormInputs, fault \in BOOLEAN :
    LET r == DeleteItem([pathParameters |-> PathOf(id), body |-> NullBody],
                        ItemsTable, fault)
        data == ResponseJson(r.call)
    IN /\ Invoked(r, "page")
       /\ ui' = [ui EXCEPT !.id = id, !.alert = Get(data, "message")]

\* the handlers called directly through the API
Next ==
  \/ Tick
  \/ InvokeCreateItem
  \/ InvokeReadItem
  \/ InvokeUpdateItem
  \/ InvokeDeleteItem

Spec == Init /\ [][Next]_vars

\* the page in the browser, next to one API client that creates items
NextPage ==
  \/ Tick
  \/ InvokeCreateItem
  \/ SubmitCreateForm
  \/ ClickLoadItem
  \/ SubmitUpdateForm
  \/ SubmitDeleteForm

SpecPage == Init /\ [][NextPage]_vars

(* ------------------------------- claims -------------------------------- *)

\* a step in which a handler ran and left a trace in the invocation record,
\* the table or the history
HandlerStep == call' # call \/ ItemsTable' # ItemsTable \/ hist' # hist

\* the step leaves every item other than the one stored under id as it was
OthersUnchanged(id) ==
  /\ DOMAIN ItemsTable' \ {id} = DOMAIN ItemsTable \ {id}
  /\ \A k \in DOMAIN ItemsTable \ {id} : ItemsTable'[k] = ItemsTable[k]

\* C1: with a healthy backend, a Read of an id whose last successful change
\* was a Create returns 200 with a record whose ItemID, Name and Description
\* are the values passed to that Create and whose CreatedAt is the timestamp
\* the Create handler generated, which is a clock reading and not the
\* CreatedAt of the request body.
CreateThenRead ==
  (call.op = "Read" /\ call.ItemID = Watched /\ ~call.fault /\ hist.op = "Create")
    => /\ call.statusCode = 200
       /\ JSONParse(call.body) =
            JSONStringify([ItemID |-> Watched, Name |-> hist.Name,
                           Description |-> hist.Description,
                           CreatedAt |-> hist.timestamp])
       /\ Get(JSONParse(call.body), "CreatedAt") \in
            {ToISOString(t) : t \in 0..MaxClock}

CreateThenReadWitness ==
  /\ call.op = "Read" /\ call.ItemID = Watched /\ ~call.fault
  /\ hist.op = "Create" /\ hist.Name = "n2" /\ hist.Description = "d1"
  /\ call.statusCode = 200
  /\ Get(JSONParse(call.body), "Name") = "n2"
  /\ Get(JSONParse(call.body), "CreatedAt") = ToISOString(1)

\* C2: an Update, with a healthy backend, of a valid id that has no stored
\* record never returns a success response and never leaves a record stored
\* under that id.
UpdateAbsentIsNotFound ==
  [][(HandlerStep /\ call'.op = "Update" /\ ~call'.threw /\ ~call'.fault
        /\ ValidKey(call'.ItemID) /\ call'.ItemID \notin DOMAIN ItemsTable)
       => (~Succeeded(call') /\ call'.ItemID \notin DOMAIN ItemsTable')]_vars

\* C3: a Create or Update whose id is missing or empty returns a client input
\* error (400) without sending a request to the table, and the table is
\* unchanged.
MissingIdIsClientError ==
  [][(HandlerStep /\ call'.op \in {"Create", "Update"} /\ ~call'.threw
        /\ ~ValidKey(call'.ItemID))
       => (call'.statusCode = 400 /\ call'.calls = 0
           /\ ItemsTable' = ItemsTable)]_vars

\* C4: every handler invocation ends by returning a response with a status
\* and a body that carries a message, an error or a record; none ends in an
\* exception thrown out of the handler.
AlwaysStructured ==
  call.op # "none"
    => /\ ~call.threw
       /\ call.statusCode \in {200, 201, 404, 500}
       /\ call.body.kind = "object"
       /\ DOMAIN JSONParse(call.body) # {}

ReadAbsentIsNotFound ==
  (call.op = "Read" /\ ~call.threw)
    => /\ (~call.fault /\ ValidKey(call.ItemID)
             /\ call.ItemID \notin DOMAIN ItemsTable)
            => (call.statusCode = 404
                /\ JSONParse(call.body) = [message |-> "Item not found"])
       /\ call.fault
            => (call.statusCode = 500
                /\ DOMAIN JSONParse(call.body) = {"error"})

ReadAbsentWitness ==
  /\ call.op = "Read" /\ call.ItemID = Watched /\ ~call.fault
  /\ hist.op = "none" /\ Watched \notin DOMAIN ItemsTable
  /\ call.statusCode = 404

\* C7: when the last two successful changes of an id are a Create followed by
\* a Delete, the table holds no record for it and a Read of it with a healthy
\* backend returns 404 'Item not found'.
CreateDeleteRead ==
  (hist.op = "Delete" /\ hist.prev = "Create")
    => /\ Watched \notin DOMAIN ItemsTable
       /\ (call.op = "Read" /\ call.ItemID = Watched /\ ~call.fault)
            => (call.statusCode = 404
                /\ JSONParse(call.body) = [message |-> "Item not found"])

CreateDeleteReadWitness ==
  /\ hist.op = "Delete" /\ hist.prev = "Create"
  /\ call.op = "Read" /\ call.ItemID = Watched /\ ~call.fault
  /\ call.statusCode = 404

\* C8: with a healthy backend a Delete of a valid id returns 200 with the
\* same message whether or not a record is stored, afterwards none is stored,
\* and when none was stored the table is unchanged; a Delete returns 500 only
\* when its call to the table failed.
DeleteIdempotent ==
  [][(HandlerStep /\ call'.op = "Delete" /\ ~call'.threw)
       => /\ (~call'.fault /\ ValidKey(call'.ItemID))
               => /\ call'.statusCode = 200
                  /\ JSONParse(call'.body) =
                       [message |-> "Item deleted successfully"]
                  /\ call'.ItemID \notin DOMAIN ItemsTable'
                  /\ OthersUnchanged(call'.ItemID)
                  /\ (call'.ItemID \notin DOMAIN ItemsTable
                        => ItemsTable' = ItemsTable)
          /\ call'.statusCode = 500
               => (call'.fault \/ ~ValidKey(call'.ItemID))]_vars

DeleteTwiceWitness ==
  /\ call.op = "Delete" /\ call.ItemID = Watched /\ call.statusCode = 200
  /\ hist.op = "Delete" /\ hist.prev = "Delete"
  /\ Watched \notin DOMAIN ItemsTable

\* C9: with a healthy backend a Create of an id that already has a stored
\* record returns 201 and replaces the record by the new ItemID, Name,
\* Description and the timestamp of this Create; the set of stored ids and
\* every other item are unchanged.
CreateOverwrites ==
  [][(HandlerStep /\ call'.op = "Create" /\ ~call'.threw /\ ~call'.fault
        /\ call'.ItemID \in DOMAIN ItemsTable)
       => LET id == call'.ItemID
          IN /\ call'.statusCode = 201
             /\ DOMAIN ItemsTable' = DOMAIN ItemsTable
             /\ OthersUnchanged(id)
             /\ Get(ItemsTable'[id], "ItemID") = id
             /\ Get(ItemsTable'[id], "CreatedAt") = ToISOString(now)
             /\ (id = Watched =>
                   ItemsTable'[id] =
                     JSONStringify([ItemID |-> id, Name |-> hist'.Name,
                                    Description |-> hist'.Description,
                                    CreatedAt |-> hist'.timestamp]))]_vars

CreateTwiceWitness ==
  /\ call.op = "Create" /\ call.ItemID = Watched /\ call.statusCode = 201
  /\ hist.op = "Create" /\ hist.prev = "Create"
  /\ hist.timestamp = ToISOString(1)
  /\ Get(ItemsTable[Watched], "CreatedAt") = ToISOString(1)

\* C10: through the page, an item submitted by the create form with a
\* non-empty id and a healthy backend is stored under that id; when the Read
\* handler returns a found record the load-item listener renders its ID, name
\* and description, and it renders 'Item not found' only for the 404 outcome.
PageShowsItem ==
  /\ (call.via = "page" /\ call.op = "Create" /\ ~call.fault /\ ValidKey(ui.id))
       => ui.id \in DOMAIN ItemsTable
  /\ (call.via = "page" /\ call.op = "Read")
       => /\ call.statusCode = 200
               => LET item == JSONParse(call.body)
                  IN ui.output = <<"ID:", Get(item, "ItemID"),
                                   "Name:", Get(item, "Name"),
                                   "Description:", Get(item, "Description")>>
          /\ ui.output = <<"Item not found">> => call.statusCode = 404

====
